---- MODULE Spec2Model ----
(***************************************************************************)
(* Model of create_dataset.py: get_cancer_df (the join of the study        *)
(* metadata table with the scoring table), create_image_datasets (the      *)
(* per-row extraction of slices into images/cancer, images/nonmalignant)   *)
(* and main (configuration from the environment, then both steps).         *)
(*                                                                         *)
(* Python strings are sequences of pieces (a piece is a character or an    *)
(* indivisible token, a separator "/" is always a piece of its own).       *)
(* A DataFrame is the sequence of its rows, a row a function from column   *)
(* names to values.                                                        *)
(***************************************************************************)
EXTENDS Integers, Sequences, FiniteSets, TLC

VARIABLES
    pc,                      \* position in main / create_image_datasets / get_cancer_df
    environ,                 \* the process environment after load_dotenv
    metadata_csv,            \* SpecJoin: content of datasets/metadata.csv
    target_xlsx,             \* SpecJoin: content of Sheet1 of the target data workbook
    threshold_for_cancer,    \* argument of get_cancer_df
    ucla_cancer_threshold,   \* main's local
    path_to_manifest_folder, \* main's local, argument of create_image_datasets
    cancer_df,               \* result of get_cancer_df
    dirs,                    \* directories existing below the working directory
    i,                       \* row loop variable of create_image_datasets
    original_image_path,     \* local of create_image_datasets
    new_image_location,      \* local of create_image_datasets
    pixel_array,             \* shape[0] of the decoded volume (its slice count)
    slice_number,            \* slice loop variable
    files,                   \* paths written by cv2.imwrite in this run
    log,                     \* what was printed
    writes,                  \* history: the calls of cv2.imwrite, in order
    outcome,                 \* history: per finished row, "skipped" or the slice count
    raised                   \* the uncaught exception that ended the run ("" if none)

vars == <<pc, environ, metadata_csv, target_xlsx, threshold_for_cancer,
          ucla_cancer_threshold, path_to_manifest_folder, cancer_df, dirs, i,
          original_image_path, new_image_location, pixel_array, slice_number,
          files, log, writes, outcome, raised>>

----------------------------------------------------------------------------
(* Bounds of the model *)

MaxMeta == 2
MaxTarget == 2
MaxRows == 2

----------------------------------------------------------------------------
(* Python values *)

\* None: a one-piece sequence holding a token no string contains.
None == << "NoneType" >>

\* the value of a local that no assignment has reached yet
Unassigned == 0 - 1

DigitChar == <<"0", "1", "2", "3", "4", "5", "6", "7", "8", "9">>

\* str(n) for n >= 0, as the f-string formats an int
RECURSIVE Digits(_)
Digits(n) == IF n < 10 THEN << DigitChar[n + 1] >>
             ELSE Digits(n \div 10) \o << DigitChar[(n % 10) + 1] >>

DigitValue(c) == CHOOSE d \in 0..9 : DigitChar[d + 1] = c

IsDigits(s) == /\ s # None
               /\ Len(s) > 0
               /\ \A k \in 1..Len(s) : \E d \in 0..9 : DigitChar[d + 1] = s[k]

\* int(s) for a string of decimal digits
RECURSIVE IntOf(_)
IntOf(s) == IF Len(s) = 0 THEN 0
            ELSE 10 * IntOf(SubSeq(s, 1, Len(s) - 1)) + DigitValue(s[Len(s)])

\* s[2:]
Strip2(s) == SubSeq(s, 3, Len(s))

\* os.path.join(a, b) on POSIX
PathJoin(a, b) ==
    IF Len(b) > 0 /\ b[1] = "/" THEN b
    ELSE IF Len(a) = 0 \/ a[Len(a)] = "/" THEN a \o b
    ELSE a \o << "/" >> \o b

\* os.getenv(name)
Getenv(name) == IF name \in DOMAIN environ THEN environ[name] ELSE None

----------------------------------------------------------------------------
(* Input domains *)

Modalities == {"US", "MR"}
SeriesUIDs == {"S1", "S2"}
\* the directory of each series, as its "File Location" names it
FileLocationOf == [uid \in SeriesUIDs |->
                     IF uid = "S1" THEN << ".", "/", "A" >> ELSE << ".", "/", "B" >>]
Scores == {2, 3}
ThresholdStrings == { << "3" >>, << "x" >> }
ManifestStrings == { << "/", "m" >> }
SliceCounts == {100, 130, 131, 134, 135}

EnvNames == {"UCLA_CANCER_THRESHOLD", "PATH_TO_MANIFEST_FOLDER"}

Environs ==
    { e \in UNION { [D -> ThresholdStrings \cup ManifestStrings] : D \in SUBSET EnvNames } :
        /\ "UCLA_CANCER_THRESHOLD" \in DOMAIN e
              => e["UCLA_CANCER_THRESHOLD"] \in ThresholdStrings
        /\ "PATH_TO_MANIFEST_FOLDER" \in DOMAIN e
              => e["PATH_TO_MANIFEST_FOLDER"] \in ManifestStrings }

\* a row of datasets/metadata.csv ("Collection" stands for the columns ignored)
MetaRow(mod, uid) ==
    ("Subject ID" :> "P") @@ ("Modality" :> mod) @@ ("SOP Class Name" :> "USMF")
    @@ ("File Location" :> FileLocationOf[uid]) @@ ("Series UID" :> uid)
    @@ ("Collection" :> "PB")

MetaRows == { MetaRow(mod, uid) : mod \in Modalities, uid \in SeriesUIDs }

\* a row of Sheet1 ("PSA" stands for the columns ignored)
TargetRow(score, uid) ==
    ("UCLA Score (Similar to PIRADS v2)" :> score) @@ ("Patient ID" :> "P")
    @@ ("seriesInstanceUID_US" :> uid) @@ ("PSA" :> "n")

TargetRows == { TargetRow(score, uid) : score \in Scores, uid \in SeriesUIDs }

SeqsUpTo(S, n) == UNION { [1..k -> S] : k \in 0..n }

MetaTables == SeqsUpTo(MetaRows, MaxMeta)
TargetTables == SeqsUpTo(TargetRows, MaxTarget)
Thresholds == 2..4

----------------------------------------------------------------------------
(* get_cancer_df *)

\* df[columns]
Project(df, columns) == [k \in 1..Len(df) |-> [c \in columns |-> df[k][c]]]

meta_data_columns_to_keep ==
    {"Subject ID", "Modality", "SOP Class Name", "File Location", "Series UID"}

target_columns_to_keep ==
    {"UCLA Score (Similar to PIRADS v2)", "Patient ID", "seriesInstanceUID_US"}

IsUS(row) == row["Modality"] = "US"

\* df[df["Modality"] == "US"]: the rows the mask keeps, in order
RECURSIVE SelectUS(_)
SelectUS(df) ==
    IF Len(df) = 0 THEN << >>
    ELSE (IF IsUS(df[1]) THEN << df[1] >> ELSE << >>) \o SelectUS(Tail(df))

\* metadata_df after line 34
FilterUS_NoFilter(df) == df
FilterUS(df) == SelectUS(df)

ReadMetadata(csv) == FilterUS(Project(csv, meta_data_columns_to_keep))

\* df.rename(columns={old: new})
Rename(df, old, new) ==
    [k \in 1..Len(df) |->
        [c \in (DOMAIN df[k] \ {old}) \cup {new} |->
            IF c = new THEN df[k][old] ELSE df[k][c]]]

ReadTarget(xlsx) ==
    Rename(Project(xlsx, target_columns_to_keep), "seriesInstanceUID_US", "Series UID")

\* one element of the comparison in lines 49-51
IsCancer_Strict(score, threshold) == score > threshold
IsCancer(score, threshold) == score >= threshold

\* target_data_df["cancer"] = ...
Label(df, threshold) ==
    [k \in 1..Len(df) |->
        df[k] @@ ("cancer" :>
            IsCancer(df[k]["UCLA Score (Similar to PIRADS v2)"], threshold))]

\* whether a left and a right row are paired by the merge
KeyMatch_Cross(l, r, on) == TRUE
KeyMatch(l, r, on) == l[on] = r[on]

\* the rows of right that pair with the left row l, in right's order
RECURSIVE MatchesOf(_, _, _)
MatchesOf(l, right, on) ==
    IF Len(right) = 0 THEN << >>
    ELSE (IF KeyMatch(l, right[1], on) THEN << l @@ right[1] >> ELSE << >>)
         \o MatchesOf(l, Tail(right), on)

\* pd.merge(left, right, on=on): inner join, in the order of the left keys
RECURSIVE Merge(_, _, _)
Merge(left, right, on) ==
    IF Len(left) = 0 THEN << >>
    ELSE MatchesOf(left[1], right, on) \o Merge(Tail(left), right, on)

get_cancer_df(csv, xlsx, threshold) ==
    Merge(ReadMetadata(csv), Label(ReadTarget(xlsx), threshold), "Series UID")

----------------------------------------------------------------------------
(* create_image_datasets: names and paths *)

cwd == << "/", "w" >>
cancer_image_path == << "images", "/", "cancer" >>
nonmalignant_image_path == << "images", "/", "nonmalignant" >>
SLICES == {130, 134}
name_of_dcm_file == << "0.dcm" >>

\* f"image_{i}_{slice_number}.jpg"
ImageName_NoRow(row, slice) == << "image_" >> \o Digits(slice) \o << ".jpg" >>
ImageName(row, slice) ==
    << "image_" >> \o Digits(row) \o << "_" >> \o Digits(slice) \o << ".jpg" >>

\* lines 88-95
LocationFor_Swapped(cancer) ==
    IF cancer THEN PathJoin(cwd, nonmalignant_image_path)
    ELSE PathJoin(cwd, cancer_image_path)
LocationFor(cancer) ==
    IF cancer THEN PathJoin(cwd, cancer_image_path)
    ELSE PathJoin(cwd, nonmalignant_image_path)

\* the filter of lines 103-104: the slice is not passed over
KeepSlice_Range(s) == s \in 130..134
KeepSlice(s) == s \in SLICES

\* range(pixel_array.shape[0]) from k on: the slice numbers still to come
RangeFrom(k, n) == k..(n - 1)

\* the first slice number from k on, below n, that the filter keeps; n if none:
\* the iterations before it only `continue`
NextKept(k, n) ==
    LET kept == { s \in RangeFrom(k, n) : KeepSlice(s) } IN
    IF kept = {} THEN n
    ELSE CHOOSE s \in kept : \A t \in kept : s <= t

Row(r) == cancer_df[r + 1]


image_location_of(row) == Strip2(Row(row)["File Location"])

\* slice_image_path of lines 106-109
SliceImagePath(location, row, slice) == PathJoin(location, ImageName(row, slice))

ListdirOutcomes ==
    {"ok", "empty", "FileNotFoundError", "NotADirectoryError", "PermissionError"}

\* an entry of the history `outcome`: what became of a row at os.listdir
\* ("unlisted") or at the read of its volume ("undecoded", or "decoded" with the
\* slice count)
RowOutcome(status, slices) == [status |-> status, slices |-> slices]

Say(msg, arg) == [msg |-> msg, arg |-> arg]

\* the counts printed by value_counts(), as text
RECURSIVE CountCancer(_, _)
CountCancer(df, label) ==
    IF Len(df) = 0 THEN 0
    ELSE (IF df[1]["cancer"] = label THEN 1 ELSE 0) + CountCancer(Tail(df), label)

ValueCounts(df) ==
    << "True" >> \o Digits(CountCancer(df, TRUE))
    \o << "False" >> \o Digits(CountCancer(df, FALSE))

----------------------------------------------------------------------------
(* The run of main() *)

Raise(exc) ==
    /\ raised' = exc
    /\ pc' = "aborted"

Init ==
    /\ pc = "main"
    /\ environ \in Environs
    /\ metadata_csv = << >>
    /\ target_xlsx = << >>
    /\ threshold_for_cancer = Unassigned
    /\ ucla_cancer_threshold = Unassigned
    /\ path_to_manifest_folder = << >>
    /\ cancer_df = << >>
    /\ dirs \in SUBSET {cancer_image_path, nonmalignant_image_path}
    /\ i = Unassigned
    /\ original_image_path = << >>
    /\ new_image_location = << >>
    /\ pixel_array = Unassigned
    /\ slice_number = Unassigned
    /\ files = {}
    /\ log = << >>
    /\ writes = << >>
    /\ outcome = << >>
    /\ raised = ""

\* lines 119-124: int(None) is a TypeError, int of a non-number a ValueError
MainLoadEnv ==
    /\ pc = "main"
    /\ LET t == Getenv("UCLA_CANCER_THRESHOLD") IN
       IF t = None
       THEN /\ Raise("TypeError:123")
            /\ UNCHANGED <<ucla_cancer_threshold, path_to_manifest_folder>>
       ELSE IF ~IsDigits(t)
       THEN /\ Raise("ValueError:123")
            /\ UNCHANGED <<ucla_cancer_threshold, path_to_manifest_folder>>
       ELSE /\ ucla_cancer_threshold' = IntOf(t)
            /\ path_to_manifest_folder' = Getenv("PATH_TO_MANIFEST_FOLDER")
            /\ pc' = "main_get_cancer_df"
            /\ UNCHANGED raised
    /\ UNCHANGED <<environ, metadata_csv, target_xlsx, threshold_for_cancer, cancer_df,
                   dirs, i, original_image_path, new_image_location, pixel_array,
                   slice_number, files, log, writes, outcome>>

\* lines 126-127 with get_cancer_df (lines 13-57): the two input files are read
\* inside the call, and a file that cannot be read ends the run
MainGetCancerDf ==
    /\ pc = "main_get_cancer_df"
    /\ log' = Append(log, Say("generating", << >>))
    /\ threshold_for_cancer' = ucla_cancer_threshold
    /\ \/ /\ \E exc \in {"read_csv:25", "read_excel:37"} : Raise(exc)
          /\ UNCHANGED cancer_df
       \/ \E csv \in MetaTables, xlsx \in TargetTables :
             LET df == get_cancer_df(csv, xlsx, ucla_cancer_threshold) IN
             /\ Len(df) <= MaxRows
             /\ cancer_df' = df
             /\ pc' = "main_report"
             /\ UNCHANGED raised
    /\ UNCHANGED <<environ, metadata_csv, target_xlsx, ucla_cancer_threshold,
                   path_to_manifest_folder, dirs, i, original_image_path,
                   new_image_location, pixel_array, slice_number, files, writes,
                   outcome>>

\* lines 129-134
MainReport ==
    /\ pc = "main_report"
    /\ log' = log \o << Say("distribution", ValueCounts(cancer_df)),
                        Say("creating", << >>) >>
    /\ pc' = "makedirs_cancer"
    /\ UNCHANGED <<environ, metadata_csv, target_xlsx, threshold_for_cancer,
                   ucla_cancer_threshold, path_to_manifest_folder, cancer_df, dirs, i,
                   original_image_path, new_image_location, pixel_array, slice_number,
                   files, writes, outcome, raised>>

\* lines 67-69
MakeCancerDir ==
    /\ pc = "makedirs_cancer"
    /\ dirs' = IF cancer_image_path \notin dirs
               THEN dirs \cup {cancer_image_path} ELSE dirs
    /\ pc' = "makedirs_nonmalignant"
    /\ UNCHANGED <<environ, metadata_csv, target_xlsx, threshold_for_cancer,
                   ucla_cancer_threshold, path_to_manifest_folder, cancer_df, i,
                   original_image_path, new_image_location, pixel_array, slice_number,
                   files, log, writes, outcome, raised>>

\* lines 71-73
MakeNonmalignantDir ==
    /\ pc = "makedirs_nonmalignant"
    /\ dirs' = IF nonmalignant_image_path \notin dirs
               THEN dirs \cup {nonmalignant_image_path} ELSE dirs
    /\ pc' = "for_row"
    /\ UNCHANGED <<environ, metadata_csv, target_xlsx, threshold_for_cancer,
                   ucla_cancer_threshold, path_to_manifest_folder, cancer_df, i,
                   original_image_path, new_image_location, pixel_array, slice_number,
                   files, log, writes, outcome, raised>>

\* line 75: the next i of range(cancer_df.shape[0]), or the end of the loop, where
\* create_image_datasets and then main return
ForRow ==
    /\ pc = "for_row"
    /\ LET next == IF i = Unassigned THEN 0 ELSE i + 1 IN
       IF next < Len(cancer_df)
       THEN /\ i' = next
            /\ pc' = "row_locate"
       ELSE /\ pc' = "main_done"
            /\ UNCHANGED i
    /\ UNCHANGED <<environ, metadata_csv, target_xlsx, threshold_for_cancer,
                   ucla_cancer_threshold, path_to_manifest_folder, cancer_df, dirs,
                   original_image_path, new_image_location, pixel_array, slice_number,
                   files, log, writes, outcome, raised>>

\* lines 76-83: os.path.join(None, ...) is a TypeError outside the try; the
\* listing, and taking its first entry, are inside it
RowLocate ==
    /\ pc = "row_locate"
    /\ IF path_to_manifest_folder = None
       THEN /\ Raise("TypeError:80")
            /\ UNCHANGED <<original_image_path, outcome>>
       ELSE /\ original_image_path' =
                   PathJoin(path_to_manifest_folder, image_location_of(i))
            /\ \E listing \in ListdirOutcomes :
                   IF listing = "ok"
                   THEN /\ pc' = "row_read"
                        /\ UNCHANGED outcome
                   ELSE /\ pc' = "row_except"
                        /\ outcome' = Append(outcome, RowOutcome("unlisted", Unassigned))
            /\ UNCHANGED raised
    /\ UNCHANGED <<environ, metadata_csv, target_xlsx, threshold_for_cancer,
                   ucla_cancer_threshold, path_to_manifest_folder, cancer_df, dirs, i,
                   new_image_location, pixel_array, slice_number, files, log, writes>>

\* lines 84-86: the handler prints and goes on with the next row
RowExcept_Reraise ==
    /\ pc = "row_except"
    /\ Raise("listdir:83")
    /\ UNCHANGED <<environ, metadata_csv, target_xlsx, threshold_for_cancer,
                   ucla_cancer_threshold, path_to_manifest_folder, cancer_df, dirs, i,
                   original_image_path, new_image_location, pixel_array, slice_number,
                   files, log, writes, outcome>>
RowExcept ==
    /\ pc = "row_except"
    /\ log' = Append(log, Say("unable", original_image_path))
    /\ pc' = "for_row"
    /\ UNCHANGED <<environ, metadata_csv, target_xlsx, threshold_for_cancer,
                   ucla_cancer_threshold, path_to_manifest_folder, cancer_df, dirs, i,
                   original_image_path, new_image_location, pixel_array, slice_number,
                   files, writes, outcome, raised>>

\* lines 88-99: the label picks the directory, then the first file of the listing
\* is read and decoded; nothing handles a failure of dcmread or pixel_array
RowRead_Caught ==
    /\ pc = "row_read"
    /\ new_image_location' = LocationFor(Row(i)["cancer"])
    /\ original_image_path' = PathJoin(original_image_path, name_of_dcm_file)
    /\ \/ /\ outcome' = Append(outcome, RowOutcome("undecoded", Unassigned))
          /\ pc' = "for_row"
          /\ UNCHANGED pixel_array
       \/ \E n \in SliceCounts :
             /\ pixel_array' = n
             /\ outcome' = Append(outcome, RowOutcome("decoded", n))
             /\ pc' = "for_slice_first"
    /\ UNCHANGED <<environ, metadata_csv, target_xlsx, threshold_for_cancer,
                   ucla_cancer_threshold, path_to_manifest_folder, cancer_df, dirs, i,
                   slice_number, files, log, writes, raised>>
RowRead ==
    /\ pc = "row_read"
    /\ new_image_location' = LocationFor(Row(i)["cancer"])
    /\ original_image_path' = PathJoin(original_image_path, name_of_dcm_file)
    /\ \/ /\ \E exc \in {"dcmread:98", "pixel_array:99"} : Raise(exc)
          /\ outcome' = Append(outcome, RowOutcome("undecoded", Unassigned))
          /\ UNCHANGED pixel_array
       \/ \E n \in SliceCounts :
             /\ pixel_array' = n
             /\ outcome' = Append(outcome, RowOutcome("decoded", n))
             /\ pc' = "for_slice_first"
             /\ UNCHANGED raised
    /\ UNCHANGED <<environ, metadata_csv, target_xlsx, threshold_for_cancer,
                   ucla_cancer_threshold, path_to_manifest_folder, cancer_df, dirs, i,
                   slice_number, files, log, writes>>

\* lines 101-104: the iterations of range(pixel_array.shape[0]) up to the next
\* slice number the filter keeps, or to the end of the range
ForSlice ==
    /\ pc \in {"for_slice_first", "for_slice"}
    /\ LET start == IF pc = "for_slice_first" THEN 0 ELSE slice_number + 1
           k == NextKept(start, pixel_array)
       IN IF k < pixel_array
          THEN /\ slice_number' = k
               /\ pc' = "slice_write"
          ELSE /\ slice_number' = IF start < pixel_array THEN pixel_array - 1
                                  ELSE slice_number
               /\ pc' = "for_row"
    /\ UNCHANGED <<environ, metadata_csv, target_xlsx, threshold_for_cancer,
                   ucla_cancer_threshold, path_to_manifest_folder, cancer_df, dirs, i,
                   original_image_path, new_image_location, pixel_array, files, log,
                   writes, outcome, raised>>

\* lines 106-114: cv2.imwrite answers whether it wrote; either answer is printed
SliceWrite_Fatal ==
    /\ pc = "slice_write"
    /\ LET slice_image_path == SliceImagePath(new_image_location, i, slice_number) IN
       \E ok \in BOOLEAN :
          /\ writes' = Append(writes, [row |-> i, slice |-> slice_number,
                                       path |-> slice_image_path, ok |-> ok])
          /\ IF ok
             THEN /\ files' = files \cup {slice_image_path}
                  /\ log' = Append(log, Say("created", new_image_location))
                  /\ pc' = "for_slice"
                  /\ UNCHANGED raised
             ELSE /\ Raise("imwrite:111")
                  /\ UNCHANGED <<files, log>>
    /\ UNCHANGED <<environ, metadata_csv, target_xlsx, threshold_for_cancer,
                   ucla_cancer_threshold, path_to_manifest_folder, cancer_df, dirs, i,
                   original_image_path, new_image_location, pixel_array, slice_number,
                   outcome>>
SliceWrite ==
    /\ pc = "slice_write"
    /\ LET slice_image_path == SliceImagePath(new_image_location, i, slice_number) IN
       \E ok \in BOOLEAN :
          /\ writes' = Append(writes, [row |-> i, slice |-> slice_number,
                                       path |-> slice_image_path, ok |-> ok])
          /\ files' = IF ok THEN files \cup {slice_image_path} ELSE files
          /\ log' = Append(log, Say(IF ok THEN "created" ELSE "failed",
                                    new_image_location))
    /\ pc' = "for_slice"
    /\ UNCHANGED <<environ, metadata_csv, target_xlsx, threshold_for_cancer,
                   ucla_cancer_threshold, path_to_manifest_folder, cancer_df, dirs, i,
                   original_image_path, new_image_location, pixel_array, slice_number,
                   outcome, raised>>

Next ==
    \/ MainLoadEnv
    \/ MainGetCancerDf
    \/ MainReport
    \/ MakeCancerDir
    \/ MakeNonmalignantDir
    \/ ForRow
    \/ RowLocate
    \/ RowExcept
    \/ RowRead
    \/ ForSlice
    \/ SliceWrite

Spec == Init /\ [][Next]_vars

----------------------------------------------------------------------------
(* get_cancer_df on its own: the two tables and the threshold are the inputs *)

InitJoin ==
    /\ pc = "get_cancer_df"
    /\ environ = << >>
    /\ metadata_csv \in MetaTables
    /\ target_xlsx \in TargetTables
    /\ threshold_for_cancer \in Thresholds
    /\ ucla_cancer_threshold = Unassigned
    /\ path_to_manifest_folder = << >>
    /\ cancer_df = << >>
    /\ dirs = {}
    /\ i = Unassigned
    /\ original_image_path = << >>
    /\ new_image_location = << >>
    /\ pixel_array = Unassigned
    /\ slice_number = Unassigned
    /\ files = {}
    /\ log = << >>
    /\ writes = << >>
    /\ outcome = << >>
    /\ raised = ""

\* lines 13-57
GetCancerDf ==
    /\ pc = "get_cancer_df"
    /\ cancer_df' = get_cancer_df(metadata_csv, target_xlsx, threshold_for_cancer)
    /\ pc' = "returned"
    /\ UNCHANGED <<environ, metadata_csv, target_xlsx, threshold_for_cancer,
                   ucla_cancer_threshold, path_to_manifest_folder, dirs, i,
                   original_image_path, new_image_location, pixel_array, slice_number,
                   files, log, writes, outcome, raised>>

NextJoin == GetCancerDf

SpecJoin == InitJoin /\ [][NextJoin]_vars

----------------------------------------------------------------------------
(* Vocabulary of the properties *)

\* the positions in `writes` of the imwrite calls made for row r
WritesOf(r) == { k \in 1..Len(writes) : writes[k].row = r }

AttemptedSlices(r) == { writes[k].slice : k \in WritesOf(r) }

\* the paths row r wrote successfully
OkWritesOf(r) == { n \in 1..Len(writes) : writes[n].row = r /\ writes[n].ok }

FilesOfRow(r) == { writes[n].path : n \in OkWritesOf(r) }

\* row r is behind the loop: the loop is at a later row, or between rows, or over
RowFinished(r) == r < i \/ (r = i /\ pc \in {"for_row", "main_done"})

\* the slice numbers a volume of n slices has among the two fixed ones
ExpectedSlices(n) == { s \in {130, 134} : s < n }

\* row r was decoded and each expected slice was attempted once, nothing else
AttemptsExact(r) ==
    /\ AttemptedSlices(r) = ExpectedSlices(outcome[r + 1].slices)
    /\ Cardinality(WritesOf(r)) = Cardinality(ExpectedSlices(outcome[r + 1].slices))

\* the position of the last separator of p at or before k, 0 if there is none
RECURSIVE LastSepUpTo(_, _)
LastSepUpTo(p, k) == IF k = 0 THEN 0
                     ELSE IF p[k] = "/" THEN k
                     ELSE LastSepUpTo(p, k - 1)

LastSep(p) == LastSepUpTo(p, Len(p))

\* the pieces of a path after its last separator
Basename(p) == SubSeq(p, LastSep(p) + 1, Len(p))

\* the path without its last separator and what follows it
Dirname(p) == SubSeq(p, 1, LastSep(p) - 1)

AllRowsHandled == pc = "main_done" => Len(outcome) = Len(cancer_df)

DecodeErrors == {"dcmread:98", "pixel_array:99"}

CountMsg(msg) == Cardinality({ k \in 1..Len(log) : log[k].msg = msg })

MissingEnv(name) == name \notin DOMAIN environ

----------------------------------------------------------------------------
(* Properties of get_cancer_df, under SpecJoin *)

C2_OnlyUS ==
    pc = "returned" =>
        \A k \in 1..Len(cancer_df) :
            /\ cancer_df[k]["Modality"] = "US"
            /\ \E m \in 1..Len(metadata_csv) :
                  /\ metadata_csv[m]["Modality"] = "US"
                  /\ \A c \in meta_data_columns_to_keep :
                        cancer_df[k][c] = metadata_csv[m][c]

C2_Witness ==
    /\ pc = "returned"
    /\ Len(cancer_df) > 0
    /\ \E m \in 1..Len(metadata_csv), t \in 1..Len(target_xlsx) :
          /\ metadata_csv[m]["Modality"] = "MR"
          /\ metadata_csv[m]["Series UID"] = target_xlsx[t]["seriesInstanceUID_US"]
          /\ \A k \in 1..Len(cancer_df) :
                cancer_df[k]["Series UID"] # metadata_csv[m]["Series UID"]

\* C3: a Series UID is in the result of get_cancer_df if and only if it is both
\* in the "US" rows of the metadata table and in the score table.
C3_InnerJoin ==
    pc = "returned" =>
        { cancer_df[k]["Series UID"] : k \in 1..Len(cancer_df) }
          = { metadata_csv[m]["Series UID"] :
                m \in { n \in 1..Len(metadata_csv) : metadata_csv[n]["Modality"] = "US" } }
            \cap { target_xlsx[t]["seriesInstanceUID_US"] : t \in 1..Len(target_xlsx) }

C3_Witness ==
    /\ pc = "returned"
    /\ Len(cancer_df) > 0
    /\ \E m \in 1..Len(metadata_csv) :
          /\ metadata_csv[m]["Modality"] = "US"
          /\ \A t \in 1..Len(target_xlsx) :
                target_xlsx[t]["seriesInstanceUID_US"] # metadata_csv[m]["Series UID"]
          /\ \A k \in 1..Len(cancer_df) :
                cancer_df[k]["Series UID"] # metadata_csv[m]["Series UID"]

----------------------------------------------------------------------------
(* Properties of create_image_datasets and main, under Spec *)

C6_WriteFailureNotFatal ==
    /\ \A j \in 1..Len(writes) :
          ~writes[j].ok =>
              /\ raised \in {""} \cup DecodeErrors
              /\ pc = "aborted" => i > writes[j].row
              /\ Cardinality({ k \in WritesOf(writes[j].row) :
                                 writes[k].slice = writes[j].slice }) = 1
              /\ RowFinished(writes[j].row) => AttemptsExact(writes[j].row)
              /\ AllRowsHandled
    /\ CountMsg("failed") = Cardinality({ j \in 1..Len(writes) : ~writes[j].ok })

C6_Witness ==
    /\ pc = "main_done"
    /\ Len(writes) >= 3
    /\ writes[1].row = 0 /\ writes[1].slice = 130 /\ ~writes[1].ok
    /\ writes[2].row = 0 /\ writes[2].slice = 134
    /\ writes[3].row = 1

\* C7: with UCLA_CANCER_THRESHOLD or PATH_TO_MANIFEST_FOLDER missing from the
\* environment, main() never completes normally, whatever the input tables hold.
C7_MissingConfigAborts ==
    (MissingEnv("UCLA_CANCER_THRESHOLD") \/ MissingEnv("PATH_TO_MANIFEST_FOLDER"))
        => pc # "main_done"

\* C8: the writes of one run go to distinct paths: no (row, slice) is written
\* twice, and two writes differing in row or slice have different file names.
C8_DistinctPaths ==
    \A a \in 1..Len(writes) : \A b \in (a + 1)..Len(writes) :
            /\ writes[a].row # writes[b].row \/ writes[a].slice # writes[b].slice
            /\ Basename(writes[a].path) # Basename(writes[b].path)
            /\ writes[a].path # writes[b].path

C8_Witness ==
    \E a, b \in 1..Len(writes) :
        /\ writes[a].row # writes[b].row
        /\ writes[a].slice = writes[b].slice
        /\ Dirname(writes[a].path) = Dirname(writes[b].path)
        /\ writes[a].ok /\ writes[b].ok

\* C9: in every state each row has at most one file per slice number of
\* {130, 134} and no other file, all of them under images/cancer if the row is
\* labelled cancer and under images/nonmalignant if not; the files on disk are
\* exactly those.
C9_LabelDirectory ==
    /\ \A r \in 0..(Len(cancer_df) - 1) :
          /\ \A f \in FilesOfRow(r) :
                Dirname(f) = IF Row(r)["cancer"]
                             THEN << "/", "w", "/", "images", "/", "cancer" >>
                             ELSE << "/", "w", "/", "images", "/", "nonmalignant" >>
          /\ \A s \in {130, 134} :
                Cardinality({ k \in WritesOf(r) : writes[k].ok /\ writes[k].slice = s }) <= 1
          /\ \A k \in WritesOf(r) : writes[k].slice \in {130, 134}
          /\ Cardinality(FilesOfRow(r)) <= 2
    /\ files = UNION { FilesOfRow(r) : r \in 0..(Len(cancer_df) - 1) }

C9_Witness ==
    \E r, q \in 0..(Len(cancer_df) - 1) :
        /\ Row(r)["cancer"] /\ ~Row(q)["cancer"]
        /\ Cardinality(FilesOfRow(r)) = 2
        /\ Cardinality(FilesOfRow(q)) = 2
        /\ Cardinality(files) = 4

\* C10: when the directory of a row lists but its volume cannot be read or
\* decoded, the run ends there with that exception: no write was made for that
\* row or a later one, and the files written for the rows before it are on disk.
C10_DecodeFailureAborts ==
    \A k \in 1..Len(outcome) :
        outcome[k].status = "undecoded" =>
            /\ pc = "aborted"
            /\ raised \in DecodeErrors
            /\ i = k - 1
            /\ k = Len(outcome)
            /\ \A j \in 1..Len(writes) : writes[j].row < k - 1
            /\ files = UNION { FilesOfRow(r) : r \in 0..(k - 2) }

C10_Witness ==
    /\ pc = "aborted"
    /\ Len(outcome) = 2
    /\ outcome[2].status = "undecoded"
    /\ Cardinality(files) = 2

====
